---- MODULE Spec2Model ----
(***************************************************************************)
(* Strider: byte search and newline counting, scalar reference and SIMD.   *)
(*                                                                         *)
(* Memory is a function from addresses to bytes.  A pointer is an address. *)
(* A uint32_t bitmask is the set of its set bit positions (a subset of     *)
(* 0..31): bit i of the mask is set iff i is in the set.                   *)
(***************************************************************************)
EXTENDS Integers, Sequences, FiniteSets, TLC

VARIABLES
    VECTOR_SIZE,    \* 16 (SSE2/NEON build) or 32 (AVX2 build)
    mem,            \* memory: address -> byte
    data,           \* the caller's pointer argument (data / str / ptr)
    size,           \* the caller's size argument
    ch,             \* the caller's int ch argument (strchr)
    positions,      \* the caller's positions array: index -> size_t
    max_positions,  \* the caller's max_positions argument
    pc,             \* position of the running call
    fn,             \* the function called
    ptr,            \* local ptr of the SIMD functions
    rem,            \* local size of strider_count_newlines_simd (bytes left)
    count,          \* local count of strider_count_newlines_simd
    ret,            \* the value returned
    arg_x,          \* the uint32_t argument x of the bit utilities
    build,          \* the build's code path (compiler or architecture)
    va,             \* a vector argument: lane -> byte
    vb,             \* a second vector argument: lane -> byte
    alignment,      \* the alignment argument of strider_is_aligned
    hw,             \* what the CPU reports to the detection code
    initialized,    \* static bool initialized of strider_get_cpu_features
    cached_features,\* static cached_features of strider_get_cpu_features
    tpc,            \* thread -> position in strider_get_cpu_features
    tret,           \* thread -> the descriptor its last call returned
    calls,          \* thread -> number of calls begun
    detections,     \* history: number of times the detection code ran
    published,      \* history: the descriptors returned so far
    late,           \* history: thread -> descriptors returned before its call began
    features,       \* the descriptor passed to strider_describe_cpu_features
    buffer,         \* the caller's char buffer and the memory after it
    buffer_size,    \* the buffer_size argument
    written,        \* local written of strider_describe_cpu_features
    piece,          \* index of the next snprintf of strider_describe_cpu_features
    libc,           \* what the C library's snprintf does with a size above INT_MAX
    loads,          \* history: addresses passed to an aligned vector load
    reads           \* history: addresses of the bytes the running call has read

coreVars == <<VECTOR_SIZE, mem, data, size, ch, positions, max_positions, ptr, rem, count>>
callVars == <<pc, fn, ret>>
bitVars == <<arg_x, build>>
vecVars == <<va, vb>>
alignVars == <<alignment>>
cpuVars == <<hw, initialized, cached_features, tpc, tret, calls, detections,
             published, late>>
descVars == <<features, buffer, buffer_size, written, piece, libc>>
otherVars == <<bitVars, vecVars, alignVars, cpuVars, descVars>>

traceVars == <<loads, reads>>

vars == <<coreVars, callVars, otherVars, traceVars>>

(***************************************************************************)
(* Bounds of the model                                                     *)
(***************************************************************************)
MaxSize == 33           \* largest buffer size
MaxWindow == 2          \* length of the run of arbitrary bytes in a buffer
MaxPositions == 3       \* length of the positions array
MaxScalarSize == 7      \* largest buffer of the scalar calls (every content)
MaxStrLen == 33         \* longest string (strlen)
MaxStrWindow == 1       \* length of the run of arbitrary bytes in a string
MaxBitRun == 3          \* length of the run of arbitrary bits in a 32-bit word

(***************************************************************************)
(* Program constants                                                       *)
(***************************************************************************)
LF == 10                \* '\n'
CR == 13                \* '\r'
NUL == 0                \* '\0'
NULL == 0               \* the null pointer
Filler == 88            \* 'X', the byte the tests fill buffers with
HeapBase == 2 * 32      \* a 32-aligned address; buffers start at or after it
NoCall == "none"

\* The variables of the other parts at rest.
BitsIdle == arg_x = {} /\ build = "none"
VecIdle == va = <<>> /\ vb = <<>>
AlignIdle == alignment = 1
CpuIdle ==
    /\ hw = {}
    /\ initialized = FALSE
    /\ cached_features = <<>>
    /\ tpc = <<>>
    /\ tret = <<>>
    /\ calls = <<>>
    /\ detections = 0
    /\ published = {}
    /\ late = <<>>
DescIdle ==
    /\ features = <<>>
    /\ buffer = <<>>
    /\ buffer_size = 0
    /\ written = 0
    /\ piece = 0
    /\ libc = "none"
TraceIdle == loads = {} /\ reads = {}
OtherIdle == BitsIdle /\ VecIdle /\ AlignIdle /\ CpuIdle /\ DescIdle /\ TraceIdle

Min(S) == CHOOSE x \in S : \A y \in S : x <= y

(***************************************************************************)
(* Scalar reference: strider_count_newlines                                *)
(***************************************************************************)
\* Mutation of CountLoop: the \n after a \r is not skipped.
RECURSIVE CountLoopNoSkip(_, _, _, _, _)
CountLoopNoSkip(m, p, n, i, c) ==
    IF i >= n THEN c
    ELSE IF m[p + i] = LF \/ m[p + i] = CR THEN CountLoopNoSkip(m, p, n, i + 1, c + 1)
    ELSE CountLoopNoSkip(m, p, n, i + 1, c)

\* The for loop from index i with count c so far.
RECURSIVE CountLoop(_, _, _, _, _)
CountLoop(m, p, n, i, c) ==
    IF i >= n THEN c
    ELSE IF m[p + i] = LF THEN CountLoop(m, p, n, i + 1, c + 1)
    ELSE IF m[p + i] = CR THEN
        IF i + 1 < n /\ m[p + i + 1] = LF
        THEN CountLoop(m, p, n, i + 2, c + 1)
        ELSE CountLoop(m, p, n, i + 1, c + 1)
    ELSE CountLoop(m, p, n, i + 1, c)

strider_count_newlines(m, p, n) == CountLoop(m, p, n, 0, 0)

(***************************************************************************)
(* Scalar reference: strider_find_newline_positions                        *)
(***************************************************************************)
\* Mutation of StorePosition: the bound is the array's length, not max_positions.
StorePositionUnchecked(pos, maxp, c, i) ==
    IF c \in DOMAIN pos THEN [pos EXCEPT ![c] = i] ELSE pos

\* positions[count] = i, done only when count < max_positions.
StorePosition(pos, maxp, c, i) ==
    IF c < maxp THEN [pos EXCEPT ![c] = i] ELSE pos

\* Mutation of FindLoop: a \r\n pair is recorded at the offset of its \n.
RECURSIVE FindLoopPairAtLf(_, _, _, _, _, _, _)
FindLoopPairAtLf(m, p, n, pos, maxp, i, c) ==
    IF i >= n THEN [positions |-> pos, count |-> c]
    ELSE IF m[p + i] = LF THEN
        FindLoopPairAtLf(m, p, n, StorePosition(pos, maxp, c, i), maxp, i + 1, c + 1)
    ELSE IF m[p + i] = CR THEN
        IF i + 1 < n /\ m[p + i + 1] = LF
        THEN FindLoopPairAtLf(m, p, n, StorePosition(pos, maxp, c, i + 1), maxp, i + 2, c + 1)
        ELSE FindLoopPairAtLf(m, p, n, StorePosition(pos, maxp, c, i), maxp, i + 1, c + 1)
    ELSE FindLoopPairAtLf(m, p, n, pos, maxp, i + 1, c)

\* Mutation of FindLoop: the \n after a \r is not skipped.
RECURSIVE FindLoopNoSkip(_, _, _, _, _, _, _)
FindLoopNoSkip(m, p, n, pos, maxp, i, c) ==
    IF i >= n THEN [positions |-> pos, count |-> c]
    ELSE IF m[p + i] = LF \/ m[p + i] = CR THEN
        FindLoopNoSkip(m, p, n, StorePosition(pos, maxp, c, i), maxp, i + 1, c + 1)
    ELSE FindLoopNoSkip(m, p, n, pos, maxp, i + 1, c)

\* The for loop; the result is the pair of the array and the count.
RECURSIVE FindLoop(_, _, _, _, _, _, _)
FindLoop(m, p, n, pos, maxp, i, c) ==
    IF i >= n THEN [positions |-> pos, count |-> c]
    ELSE IF m[p + i] = LF THEN
        FindLoop(m, p, n, StorePosition(pos, maxp, c, i), maxp, i + 1, c + 1)
    ELSE IF m[p + i] = CR THEN
        IF i + 1 < n /\ m[p + i + 1] = LF
        THEN FindLoop(m, p, n, StorePosition(pos, maxp, c, i), maxp, i + 2, c + 1)
        ELSE FindLoop(m, p, n, StorePosition(pos, maxp, c, i), maxp, i + 1, c + 1)
    ELSE FindLoop(m, p, n, pos, maxp, i + 1, c)

strider_find_newline_positions(m, p, n, pos, maxp) ==
    FindLoop(m, p, n, pos, maxp, 0, 0)

(***************************************************************************)
(* Inputs                                                                  *)
(***************************************************************************)
Alphabet == {LF, CR, Filler}

\* Memory images of `len` bytes starting at address a: Filler everywhere
\* except a run of MaxWindow arbitrary bytes placed anywhere.  A buffer of
\* `size` bytes lies in an image of size + 1 bytes: the byte after the
\* buffer's end exists and is arbitrary too.
Images(a, len) ==
    { [x \in a..(a + len - 1) |->
          IF x - a >= w /\ x - a < w + MaxWindow THEN run[x - a - w + 1] ELSE Filler]
      : w \in 0..(len - 1), run \in [1..MaxWindow -> Alphabet] }

\* The positions array before the call: every slot holds the caller's marker.
Unwritten == 0 - 1
FreshPositions == [j \in 0..(MaxPositions - 1) |-> Unwritten]

(***************************************************************************)
(* Scalar newline functions: the calls                                     *)
(***************************************************************************)
\* Every buffer content of up to MaxScalarSize bytes, and the byte after it.
InitNewline ==
    /\ VECTOR_SIZE = 16
    /\ data = HeapBase
    /\ size \in 0..MaxScalarSize
    /\ mem \in [data..(data + size) -> Alphabet]
    /\ ch = 0
    /\ positions = FreshPositions
    /\ max_positions = 0
    /\ pc = "idle"
    /\ fn = NoCall
    /\ ptr = data
    /\ rem = size
    /\ count = 0
    /\ ret = 0
    /\ OtherIdle

CallCountNewlines ==
    /\ pc = "idle"
    /\ fn' = "strider_count_newlines"
    /\ ret' = strider_count_newlines(mem, data, size)
    /\ pc' = "done"
    /\ UNCHANGED <<otherVars, traceVars>>
    /\ UNCHANGED <<VECTOR_SIZE, mem, data, size, ch, positions, max_positions,
                   ptr, rem, count>>

CallFindNewlinePositions ==
    /\ pc = "idle"
    /\ \E maxp \in 0..MaxPositions :
        LET r == strider_find_newline_positions(mem, data, size, positions, maxp)
        IN /\ max_positions' = maxp
           /\ positions' = r.positions
           /\ ret' = r.count
    /\ fn' = "strider_find_newline_positions"
    /\ pc' = "done"
    /\ UNCHANGED <<otherVars, traceVars>>
    /\ UNCHANGED <<VECTOR_SIZE, mem, data, size, ch, ptr, rem, count>>

NextNewline == CallCountNewlines \/ CallFindNewlinePositions

SpecNewline == InitNewline /\ [][NextNewline]_vars

(***************************************************************************)
(* Properties of the scalar newline functions (under SpecNewline)          *)
(***************************************************************************)
Offsets == 0..(size - 1)
ByteAt(i) == mem[data + i]

\* Offsets of the newline events of the buffer: every \r, and every \n that
\* does not directly follow a \r.
Events ==
    {i \in Offsets : ByteAt(i) = CR \/ (ByteAt(i) = LF /\ ~(i > 0 /\ ByteAt(i - 1) = CR))}

\* The j-th event in scan order, j counted from 0.
NthEvent(j) == CHOOSE e \in Events : Cardinality({x \in Events : x < e}) = j

MinOf(a, b) == IF a < b THEN a ELSE b

Returned(f) == pc = "done" /\ fn = f

\* C5: strider_count_newlines returns the number of \n bytes plus the number
\* of \r bytes not directly followed by \n inside [0, size); this is also
\* the number of \r bytes plus the number of \n bytes not directly preceded
\* by \r; a buffer without \r and \n (size 0 included) counts 0.
C5_CountIsLfPlusLoneCr ==
    Returned("strider_count_newlines") =>
        LET lf == {i \in Offsets : ByteAt(i) = LF}
            cr == {i \in Offsets : ByteAt(i) = CR}
            loneCr == {i \in cr : ~(i + 1 < size /\ ByteAt(i + 1) = LF)}
            freeLf == {i \in lf : ~(i > 0 /\ ByteAt(i - 1) = CR)}
        IN /\ ret = Cardinality(lf) + Cardinality(loneCr)
           /\ ret = Cardinality(freeLf) + Cardinality(cr)
           /\ (lf = {} /\ cr = {} => ret = 0)

\* A buffer holding \n \r \n: the \r\n pair counts once, the first \n once.
C5_Witness ==
    /\ Returned("strider_count_newlines")
    /\ size = 3
    /\ ByteAt(0) = LF /\ ByteAt(1) = CR /\ ByteAt(2) = LF
    /\ ret = 2

\* C6: strider_find_newline_positions returns the total number of events
\* for every max_positions; it writes exactly the slots j < min(count,
\* max_positions) and leaves every other slot of the array as it was.
C6_TotalCountAndBoundedWrites ==
    Returned("strider_find_newline_positions") =>
        /\ ret = Cardinality(Events)
        /\ \A j \in DOMAIN positions :
              IF j < MinOf(ret, max_positions)
              THEN positions[j] # Unwritten
              ELSE positions[j] = FreshPositions[j]

\* More events than max_positions, and max_positions below the array length.
C6_Witness ==
    /\ Returned("strider_find_newline_positions")
    /\ max_positions > 0
    /\ max_positions < MaxPositions
    /\ ret > MaxPositions
    /\ positions[max_positions - 1] # Unwritten
    /\ positions[max_positions] = Unwritten

\* C7: each stored positions[j] is the offset of the j-th event in scan
\* order (a lone \n, a lone \r, or the \r of a pair, never the \n of a
\* pair); the stored offsets are strictly increasing and below size.
C7_PositionsAreEventOffsets ==
    Returned("strider_find_newline_positions") =>
        LET stored == 0..(MinOf(ret, max_positions) - 1)
        IN /\ \A j \in stored : positions[j] = NthEvent(j)
           /\ \A j \in stored : positions[j] >= 0 /\ positions[j] < size
           /\ \A j \in stored :
                 ~(ByteAt(positions[j]) = LF
                   /\ positions[j] > 0 /\ ByteAt(positions[j] - 1) = CR)
           /\ \A j, k \in stored : j < k => positions[j] < positions[k]

\* A \r\n pair stored at its \r, followed by a later stored event.
C7_Witness ==
    /\ Returned("strider_find_newline_positions")
    /\ max_positions >= 2
    /\ ret >= 2
    /\ ByteAt(positions[0]) = CR
    /\ positions[0] + 1 < size
    /\ ByteAt(positions[0] + 1) = LF
    /\ positions[1] = positions[0] + 2

\* C8: the value strider_find_newline_positions returns equals
\* strider_count_newlines(data, size), for every max_positions.
C8_FindCountEqualsCount ==
    Returned("strider_find_newline_positions") =>
        ret = strider_count_newlines(mem, data, size)

\* A buffer with a \r\n pair and a last-byte \r, listed with max_positions 0.
C8_Witness ==
    /\ Returned("strider_find_newline_positions")
    /\ max_positions = 0
    /\ size >= 3
    /\ ByteAt(0) = CR /\ ByteAt(1) = LF
    /\ ByteAt(size - 1) = CR
    /\ ret = strider_count_newlines(mem, data, size)
    /\ ret >= 2

\* C29: for every split point p in 0..size, strider_count_newlines(data, p)
\* + strider_count_newlines(data + p, size - p) equals
\* strider_count_newlines(data, size), plus 1 exactly when the split falls
\* between a \r and the \n that follows it.
C29_CountAdditiveExceptAcrossPair ==
    Returned("strider_count_newlines") =>
        \A p \in 0..size :
            strider_count_newlines(mem, data, p)
                + strider_count_newlines(mem, data + p, size - p)
            = ret + (IF p >= 1 /\ p < size /\ ByteAt(p - 1) = CR /\ ByteAt(p) = LF
                     THEN 1 ELSE 0)

\* A buffer with two \r\n pairs and a lone \r between them.
C29_Witness ==
    /\ Returned("strider_count_newlines")
    /\ size = 5
    /\ ByteAt(0) = CR /\ ByteAt(1) = LF /\ ByteAt(2) = CR
    /\ ByteAt(3) = CR /\ ByteAt(4) = LF
    /\ ret = 3

(***************************************************************************)
(* Vector register abstraction: a vector is a function lane -> byte        *)
(***************************************************************************)
strider_vec128_load_aligned(m, p) == [i \in 0..15 |-> m[p + i]]
strider_vec256_load_aligned(m, p) == [i \in 0..31 |-> m[p + i]]

strider_vec128_set1(value) == [i \in 0..15 |-> value]
strider_vec256_set1(value) == [i \in 0..31 |-> value]

strider_vec128_zero == [i \in 0..15 |-> 0]
strider_vec256_zero == [i \in 0..31 |-> 0]

\* Mutation of strider_vec128_cmpeq: equal lanes become 0x01.
strider_vec128_cmpeq_one(a, b) == [i \in 0..15 |-> IF a[i] = b[i] THEN 1 ELSE 0]

\* 0xFF in a lane where the bytes are equal, 0x00 elsewhere.
strider_vec128_cmpeq(a, b) == [i \in 0..15 |-> IF a[i] = b[i] THEN 255 ELSE 0]
strider_vec256_cmpeq(a, b) == [i \in 0..31 |-> IF a[i] = b[i] THEN 255 ELSE 0]

\* Mutation of strider_vec128_movemask: bit i is set iff lane i is non-zero.
strider_vec128_movemask_nonzero(vec) == {i \in 0..15 : vec[i] # 0}

\* Bit i of the mask is the top bit (0x80) of lane i.
strider_vec128_movemask(vec) == {i \in 0..15 : vec[i] >= 128}
strider_vec256_movemask(vec) == {i \in 0..31 : vec[i] >= 128}

\* The build's choice of width (#if defined(STRIDER_HAS_AVX2)).
vec_load_aligned(W, m, p) ==
    IF W = 32 THEN strider_vec256_load_aligned(m, p)
    ELSE strider_vec128_load_aligned(m, p)

\* The mask of the lanes of the chunk at p that hold byte b:
\* movemask(cmpeq(load_aligned(p), set1(b))).
ByteMask(W, m, p, b) ==
    IF W = 32
    THEN strider_vec256_movemask(
             strider_vec256_cmpeq(vec_load_aligned(W, m, p), strider_vec256_set1(b)))
    ELSE strider_vec128_movemask(
             strider_vec128_cmpeq(vec_load_aligned(W, m, p), strider_vec128_set1(b)))

(***************************************************************************)
(* Bit utilities on a mask                                                 *)
(***************************************************************************)
\* Number of trailing zero bits, 32 for the empty mask.
strider_ctz32(x) == IF x = {} THEN 32 ELSE Min(x)

\* Number of set bits: clear the lowest set bit until none is left.
RECURSIVE strider_popcount32(_)
strider_popcount32(x) ==
    IF x = {} THEN 0 ELSE 1 + strider_popcount32(x \ {Min(x)})

(***************************************************************************)
(* strider_count_newlines_simd                                             *)
(* The locals are the record [ptr, size, count].                           *)
(***************************************************************************)
\* Mutation of PrefixLen: the offset inside the block, not the distance to
\* the next aligned address.
PrefixLenLow(W, addr) == addr % W

\* (VECTOR_SIZE - (addr & (VECTOR_SIZE - 1))) & (VECTOR_SIZE - 1)
PrefixLen(W, addr) == (W - (addr % W)) % W

\* Lines 77-85: the unaligned prefix goes to the scalar function.
SimdPrefixStep(W, m, p, n) ==
    LET prefix_len == PrefixLen(W, p)
    IN IF prefix_len > 0 /\ prefix_len < n
       THEN [ptr |-> p + prefix_len, size |-> n - prefix_len,
             count |-> strider_count_newlines(m, p, prefix_len)]
       ELSE [ptr |-> p, size |-> n, count |-> 0]

\* Mutation of CrPaired: a \r in the last lane is never taken as paired.
CrPairedNoPeek(W, m, s, lf_mask, i) == i + 1 < W /\ (i + 1) \in lf_mask

\* The \r in lane i of the chunk is followed by \n and so is not counted.
CrPaired(W, m, s, lf_mask, i) ==
    IF i + 1 < W
    THEN (i + 1) \in lf_mask
    ELSE s.size > W /\ m[s.ptr + W] = LF

\* Mutation of SimdChunkStep: ptr and size are not advanced.
SimdChunkStepStuck(W, m, s) == s

\* One iteration of the while loop: one aligned chunk of W bytes.
SimdChunkStep(W, m, s) ==
    LET lf_mask == ByteMask(W, m, s.ptr, LF)
        cr_mask == ByteMask(W, m, s.ptr, CR)
        counted == {i \in cr_mask : ~CrPaired(W, m, s, lf_mask, i)}
    IN [ptr |-> s.ptr + W, size |-> s.size - W,
        count |-> s.count + strider_popcount32(lf_mask) + Cardinality(counted)]

\* Mutation of SimdTailStep: the remaining bytes are not counted.
SimdTailStepDropped(m, s) == s.count

\* Lines 179-184: the remaining bytes go to the scalar function.
SimdTailStep(m, s) ==
    IF s.size > 0 THEN s.count + strider_count_newlines(m, s.ptr, s.size)
    ELSE s.count

RECURSIVE SimdLoop(_, _, _)
SimdLoop(W, m, s) ==
    IF s.size >= W THEN SimdLoop(W, m, SimdChunkStep(W, m, s)) ELSE s

\* The whole call.
strider_count_newlines_simd(W, m, p, n) ==
    SimdTailStep(m, SimdLoop(W, m, SimdPrefixStep(W, m, p, n)))

(***************************************************************************)
(* The bytes each step reads                                               *)
(***************************************************************************)
\* The addresses strider_count_newlines reads: ptr[i] for every i the loop
\* visits, and ptr[i + 1] after a \r when i + 1 < size.
RECURSIVE CountReads(_, _, _, _, _)
CountReads(m, p, n, i, acc) ==
    IF i >= n THEN acc
    ELSE IF m[p + i] = LF THEN CountReads(m, p, n, i + 1, acc \cup {p + i})
    ELSE IF m[p + i] = CR THEN
        IF i + 1 < n
        THEN IF m[p + i + 1] = LF
             THEN CountReads(m, p, n, i + 2, acc \cup {p + i, p + i + 1})
             ELSE CountReads(m, p, n, i + 1, acc \cup {p + i, p + i + 1})
        ELSE CountReads(m, p, n, i + 1, acc \cup {p + i})
    ELSE CountReads(m, p, n, i + 1, acc \cup {p + i})

\* The W bytes an aligned vector load at address a reads.
VecLoadReads(W, a) == a..(a + W - 1)

\* Lines 81-85: the scalar call on the prefix, when it is split off.
SimdPrefixReads(W, m, p, n) ==
    LET prefix_len == PrefixLen(W, p)
    IN IF prefix_len > 0 /\ prefix_len < n
       THEN CountReads(m, p, prefix_len, 0, {})
       ELSE {}

\* Mutation of SimdChunkReads: ptr[W] is read without the test size > W.
SimdChunkReadsUnguarded(W, m, s) ==
    VecLoadReads(W, s.ptr)
    \cup (IF (W - 1) \in ByteMask(W, m, s.ptr, CR) THEN {s.ptr + W} ELSE {})

\* One iteration: the vector load, and ptr[W] when the last lane is a \r
\* and size > W.
SimdChunkReads(W, m, s) ==
    VecLoadReads(W, s.ptr)
    \cup (IF (W - 1) \in ByteMask(W, m, s.ptr, CR) /\ s.size > W
          THEN {s.ptr + W} ELSE {})

\* Lines 180-182: the scalar call on the remaining bytes.
SimdTailReads(m, s) ==
    IF s.size > 0 THEN CountReads(m, s.ptr, s.size, 0, {}) ELSE {}

(***************************************************************************)
(* strider_count_newlines_simd: the call, step by step                     *)
(***************************************************************************)
VectorSizes == {16, 32}

InitSimd ==
    /\ VECTOR_SIZE \in VectorSizes
    /\ data \in {HeapBase + o : o \in 0..(VECTOR_SIZE - 1)}
    /\ size \in 0..MaxSize
    /\ mem \in Images(data, size + 1)
    /\ ch = 0
    /\ positions = FreshPositions
    /\ max_positions = 0
    /\ pc = "idle"
    /\ fn = NoCall
    /\ ptr = data
    /\ rem = size
    /\ count = 0
    /\ ret = 0
    /\ OtherIdle

Locals == [ptr |-> ptr, size |-> rem, count |-> count]

SimdPrefix ==
    /\ pc = "idle"
    /\ fn' = "strider_count_newlines_simd"
    /\ LET s == SimdPrefixStep(VECTOR_SIZE, mem, data, size)
       IN /\ ptr' = s.ptr
          /\ rem' = s.size
          /\ count' = s.count
    /\ pc' = "loop"
    /\ loads' = {}
    /\ reads' = SimdPrefixReads(VECTOR_SIZE, mem, data, size)
    /\ UNCHANGED otherVars
    /\ UNCHANGED <<VECTOR_SIZE, mem, data, size, ch, positions, max_positions, ret>>

SimdChunk ==
    /\ pc = "loop"
    /\ fn = "strider_count_newlines_simd"
    /\ rem >= VECTOR_SIZE
    /\ LET s == SimdChunkStep(VECTOR_SIZE, mem, Locals)
       IN /\ ptr' = s.ptr
          /\ rem' = s.size
          /\ count' = s.count
    /\ loads' = loads \cup {ptr}
    /\ reads' = reads \cup SimdChunkReads(VECTOR_SIZE, mem, Locals)
    /\ UNCHANGED otherVars
    /\ UNCHANGED <<VECTOR_SIZE, mem, data, size, ch, positions, max_positions,
                   pc, fn, ret>>

SimdTail ==
    /\ pc = "loop"
    /\ fn = "strider_count_newlines_simd"
    /\ rem < VECTOR_SIZE
    /\ ret' = SimdTailStep(mem, Locals)
    /\ pc' = "done"
    /\ loads' = loads
    /\ reads' = reads \cup SimdTailReads(mem, Locals)
    /\ UNCHANGED otherVars
    /\ UNCHANGED <<VECTOR_SIZE, mem, data, size, ch, positions, max_positions,
                   fn, ptr, rem, count>>

NextSimd == SimdPrefix \/ SimdChunk \/ SimdTail

SpecSimd == InitSimd /\ [][NextSimd]_vars

(***************************************************************************)
(* Properties of strider_count_newlines_simd (under SpecSimd)              *)
(***************************************************************************)
\* The same bytes placed k addresses further on.
Rebase(m, k) == [x \in {y + k : y \in DOMAIN m} |-> m[x - k]]

\* C1: for every buffer content, size and start offset modulo the vector
\* width, strider_count_newlines_simd returns the count that the scalar
\* reference strider_count_newlines returns.
C1_SimdCountEqualsScalar ==
    Returned("strider_count_newlines_simd") =>
        ret = strider_count_newlines(mem, data, size)

\* C3: the count of strider_count_newlines_simd depends on the bytes and the
\* size only: the same bytes at any other start offset modulo the vector
\* width give the same count.
C3_SimdCountIgnoresAlignment ==
    Returned("strider_count_newlines_simd") =>
        \A o \in 0..(VECTOR_SIZE - 1) :
            LET k == (HeapBase + VECTOR_SIZE + o) - data
            IN ret = strider_count_newlines_simd(VECTOR_SIZE, Rebase(mem, k),
                                                 data + k, size)

\* The buffer holds one \r\n pair and no other \r or \n, and the \r lies
\* 1 + k bytes (0 <= k < W) before a W-aligned address inside the buffer.
OnePairBeforeBoundary ==
    \E c \in Offsets :
        /\ c + 1 < size
        /\ ByteAt(c) = CR
        /\ ByteAt(c + 1) = LF
        /\ \A i \in Offsets \ {c, c + 1} : ByteAt(i) # CR /\ ByteAt(i) # LF
        /\ \E k \in 0..(VECTOR_SIZE - 1) :
              LET B == data + c + 1 + k
              IN B % VECTOR_SIZE = 0 /\ B < data + size

\* C4: a \r\n pair whose \r lies at B - 1 - k, for a W-aligned address B
\* inside the buffer and 0 <= k < W, with no other \r or \n in the buffer,
\* is counted by strider_count_newlines_simd as exactly one event.
C4_PairAtBoundaryCountsOnce ==
    Returned("strider_count_newlines_simd") /\ OnePairBeforeBoundary => ret = 1

\* C27: when the start address is W-aligned, or size does not exceed the
\* prefix length (so no prefix is split off), strider_count_newlines_simd
\* equals strider_count_newlines for every content, \r\n pairs across two
\* vector chunks or across the last chunk and the tail included.
C27_NoSplitPrefixEqualsScalar ==
    (Returned("strider_count_newlines_simd")
        /\ (data % VECTOR_SIZE = 0 \/ size <= VECTOR_SIZE - (data % VECTOR_SIZE))) =>
        ret = strider_count_newlines(mem, data, size)

\* An aligned buffer of two chunks and a one-byte tail, with a \r\n pair
\* across the last chunk and the tail.
C27_Witness ==
    /\ Returned("strider_count_newlines_simd")
    /\ VECTOR_SIZE = 16
    /\ data % VECTOR_SIZE = 0
    /\ size = 2 * VECTOR_SIZE + 1
    /\ ByteAt(size - 2) = CR /\ ByteAt(size - 1) = LF
    /\ Cardinality(loads) = 2
    /\ ret = 1

Buffer == data..(data + size - 1)

\* C22: strider_count_newlines_simd and the scalar calls it makes read only
\* bytes of the caller's buffer: every vector load covers W bytes inside the
\* buffer, and the byte after a \r (ptr[W] after a chunk's last lane,
\* ptr[i + 1] in the scalar scans) is read only when it is inside it.
C22_NewlineReadsInsideBuffer ==
    fn = "strider_count_newlines_simd" =>
        /\ reads \subseteq Buffer
        /\ \A a \in loads : VecLoadReads(VECTOR_SIZE, a) \subseteq Buffer

\* A call that peeked at ptr[W] after a \r in a chunk's last lane, on a
\* buffer that starts unaligned.
C22_Witness ==
    /\ Returned("strider_count_newlines_simd")
    /\ data % VECTOR_SIZE # 0
    /\ \E a \in loads :
           /\ mem[a + VECTOR_SIZE - 1] = CR
           /\ a + VECTOR_SIZE \in reads
           /\ a + VECTOR_SIZE \notin loads
           /\ a + VECTOR_SIZE = data + size - 1

(***************************************************************************)
(* Scalar reference: strider_strchr                                        *)
(***************************************************************************)
\* Mutation of ToUChar: the int is used without the conversion.
NoCast(c) == c

\* (unsigned char) ch
ToUChar(c) == c % 256

\* Mutation of StrchrLoop: the scan keeps the last match, not the first.
RECURSIVE StrchrLoopLast(_, _, _)
StrchrLoopLast(m, s, target) ==
    IF m[s] # NUL
    THEN LET later == StrchrLoopLast(m, s + 1, target)
         IN IF later # NULL THEN later
            ELSE IF m[s] = target THEN s ELSE NULL
    ELSE IF target = NUL THEN s ELSE NULL

\* The while loop and the return after it, from pointer s.
RECURSIVE StrchrLoop(_, _, _)
StrchrLoop(m, s, target) ==
    IF m[s] # NUL
    THEN IF m[s] = target THEN s ELSE StrchrLoop(m, s + 1, target)
    ELSE IF target = NUL THEN s ELSE NULL

strider_strchr(m, s, c) == StrchrLoop(m, s, ToUChar(c))

(***************************************************************************)
(* strider_strchr_simd                                                     *)
(* A step yields [pc, ptr, ret]: pc = "done" when the call returned ret.   *)
(***************************************************************************)
\* Lines 130-141: the scalar scan of the bytes before the aligned address.
RECURSIVE StrchrPrefixLoop(_, _, _, _, _)
StrchrPrefixLoop(m, p, target, prefix_len, i) ==
    IF i >= prefix_len THEN [pc |-> "loop", ptr |-> p + prefix_len, ret |-> NULL]
    ELSE IF m[p + i] = target THEN [pc |-> "done", ptr |-> p, ret |-> p + i]
    ELSE IF m[p + i] = NUL
         THEN [pc |-> "done", ptr |-> p,
               ret |-> IF target = NUL THEN p + i ELSE NULL]
    ELSE StrchrPrefixLoop(m, p, target, prefix_len, i + 1)

StrchrPrefixStep(W, m, p, c) ==
    StrchrPrefixLoop(m, p, ToUChar(c), PrefixLen(W, p), 0)

\* Mutation of StrchrPrefixReadsLoop: the scan reads the whole prefix.
StrchrPrefixReadsNoStop(m, p, target, prefix_len, i, acc) ==
    acc \cup {p + j : j \in i..(prefix_len - 1)}

\* The addresses the prefix scan reads: ptr[i] up to the byte it stops at.
RECURSIVE StrchrPrefixReadsLoop(_, _, _, _, _, _)
StrchrPrefixReadsLoop(m, p, target, prefix_len, i, acc) ==
    IF i >= prefix_len THEN acc
    ELSE IF m[p + i] = target \/ m[p + i] = NUL THEN acc \cup {p + i}
    ELSE StrchrPrefixReadsLoop(m, p, target, prefix_len, i + 1, acc \cup {p + i})

StrchrPrefixReads(W, m, p, c) ==
    StrchrPrefixReadsLoop(m, p, ToUChar(c), PrefixLen(W, p), 0, {})

\* Mutation of StrchrChunkStep: a match in the chunk is returned without
\* comparing its lane with the terminator's lane.
StrchrChunkStepNoOrder(W, m, p, c) ==
    LET target == ToUChar(c)
        null_mask == ByteMask(W, m, p, NUL)
        target_mask == ByteMask(W, m, p, target)
    IN IF target_mask # {}
       THEN [pc |-> "done", ptr |-> p, ret |-> p + strider_ctz32(target_mask)]
       ELSE IF null_mask # {}
            THEN [pc |-> "done", ptr |-> p, ret |-> NULL]
            ELSE [pc |-> "loop", ptr |-> p + W, ret |-> NULL]

\* One iteration of the while (1) loop: one aligned chunk of W bytes.
StrchrChunkStep(W, m, p, c) ==
    LET target == ToUChar(c)
        null_mask == ByteMask(W, m, p, NUL)
        target_mask == ByteMask(W, m, p, target)
        null_pos == strider_ctz32(null_mask)
        target_pos == strider_ctz32(target_mask)
    IN IF null_mask # {}
       THEN IF target_mask # {} /\ target_pos < null_pos
            THEN [pc |-> "done", ptr |-> p, ret |-> p + target_pos]
            ELSE [pc |-> "done", ptr |-> p,
                  ret |-> IF target = NUL THEN p + null_pos ELSE NULL]
       ELSE IF target_mask # {}
            THEN [pc |-> "done", ptr |-> p, ret |-> p + target_pos]
            ELSE [pc |-> "loop", ptr |-> p + W, ret |-> NULL]

(***************************************************************************)
(* strchr: inputs and calls                                                *)
(***************************************************************************)
LetterA == 97           \* 'a'

\* The int ch arguments tried: 0 and its alias modulo 256, a byte that a
\* string holds at most MaxStrWindow times, and the byte that fills it.
Chars == {0, 256, LetterA, Filler}

\* Last address of the W-aligned block that holds address a.
BlockEnd(W, a) == a - (a % W) + W - 1

\* Memory holding a string of `len` bytes at address a: Filler except a run
\* of MaxStrWindow bytes, then the terminator, then bytes g that are not the
\* string's, up to the end of the terminator's aligned block.
StrImages(W, a, len) ==
    { [x \in a..BlockEnd(W, a + len) |->
          IF x - a < len
          THEN IF x - a >= w /\ x - a < w + MaxStrWindow
               THEN run[x - a - w + 1] ELSE Filler
          ELSE IF x - a = len THEN NUL ELSE g]
      : w \in 0..len, run \in [1..MaxStrWindow -> {LetterA, Filler}],
        g \in {NUL, LetterA} }

InitStrchr ==
    /\ VECTOR_SIZE \in VectorSizes
    /\ data \in {HeapBase + o : o \in 0..(VECTOR_SIZE - 1)}
    /\ size \in 0..MaxStrLen
    /\ mem \in StrImages(VECTOR_SIZE, data, size)
    /\ ch \in Chars
    /\ positions = FreshPositions
    /\ max_positions = 0
    /\ pc = "idle"
    /\ fn = NoCall
    /\ ptr = data
    /\ rem = 0
    /\ count = 0
    /\ ret = NULL
    /\ OtherIdle

CallStrchr ==
    /\ pc = "idle"
    /\ fn' = "strider_strchr"
    /\ ret' = strider_strchr(mem, data, ch)
    /\ pc' = "done"
    /\ UNCHANGED <<otherVars, traceVars>>
    /\ UNCHANGED <<VECTOR_SIZE, mem, data, size, ch, positions, max_positions,
                   ptr, rem, count>>

StrchrSimdPrefix ==
    /\ pc = "idle"
    /\ fn' = "strider_strchr_simd"
    /\ LET s == StrchrPrefixStep(VECTOR_SIZE, mem, data, ch)
       IN /\ pc' = s.pc
          /\ ptr' = s.ptr
          /\ ret' = s.ret
    /\ loads' = {}
    /\ reads' = StrchrPrefixReads(VECTOR_SIZE, mem, data, ch)
    /\ UNCHANGED otherVars
    /\ UNCHANGED <<VECTOR_SIZE, mem, data, size, ch, positions, max_positions,
                   rem, count>>

StrchrSimdChunk ==
    /\ pc = "loop"
    /\ fn = "strider_strchr_simd"
    /\ LET s == StrchrChunkStep(VECTOR_SIZE, mem, ptr, ch)
       IN /\ pc' = s.pc
          /\ ptr' = s.ptr
          /\ ret' = s.ret
    /\ loads' = loads \cup {ptr}
    /\ reads' = reads \cup VecLoadReads(VECTOR_SIZE, ptr)
    /\ UNCHANGED otherVars
    /\ UNCHANGED <<VECTOR_SIZE, mem, data, size, ch, positions, max_positions,
                   fn, rem, count>>

NextStrchr == CallStrchr \/ StrchrSimdPrefix \/ StrchrSimdChunk

SpecStrchr == InitStrchr /\ [][NextStrchr]_vars

(***************************************************************************)
(* Properties of strider_strchr and strider_strchr_simd (under SpecStrchr) *)
(* The string is mem[data .. data + size - 1], its terminator at data+size.*)
(***************************************************************************)
Terminator == data + size

\* The byte searched for: the value of ch as an unsigned char.
TargetByte == ch % 256

\* Addresses of the string's bytes equal to byte t.
Occurrences(t) == {a \in data..(Terminator - 1) : mem[a] = t}

\* C2: for every string (the empty one included), target and start offset
\* modulo the vector width, strider_strchr_simd returns what strider_strchr
\* returns: the same pointer, or NULL in both.
C2_StrchrSimdEqualsScalar ==
    Returned("strider_strchr_simd") => ret = strider_strchr(mem, data, ch)

\* The match is found in the second aligned chunk, after a scalar prefix,
\* while the bytes after the terminator hold the target too.
C2_Witness ==
    /\ Returned("strider_strchr_simd")
    /\ data % VECTOR_SIZE # 0
    /\ ptr >= data + VECTOR_SIZE + PrefixLen(VECTOR_SIZE, data)
    /\ ret # NULL
    /\ ret >= ptr
    /\ mem[ret] = LetterA
    /\ Terminator % VECTOR_SIZE # VECTOR_SIZE - 1
    /\ mem[Terminator + 1] = LetterA

\* C9: for a non-zero target, strider_strchr returns the address of the
\* first occurrence (no byte before it is the target or zero), and NULL iff
\* the target does not occur before the terminator.
C9_StrchrFirstOccurrence ==
    Returned("strider_strchr") /\ TargetByte # NUL =>
        LET occ == Occurrences(TargetByte)
        IN /\ (ret = NULL) <=> (occ = {})
           /\ ret # NULL =>
                 /\ ret \in occ
                 /\ mem[ret] = TargetByte
                 /\ \A a \in data..(ret - 1) : mem[a] # NUL /\ mem[a] # TargetByte

\* The first of several occurrences is returned, and it is not the first byte.
C9_Witness ==
    /\ Returned("strider_strchr")
    /\ ch = Filler
    /\ ret = data + 1
    /\ Cardinality(Occurrences(Filler)) >= 3

\* C10: a search for the zero byte (any ch whose unsigned char value is 0)
\* never returns NULL: strider_strchr and strider_strchr_simd both return
\* the address of the terminator.
C10_ZeroByteFindsTerminator ==
    pc = "done" /\ TargetByte = NUL => ret = Terminator /\ ret # NULL

\* The SIMD search for ch = 256 finds the terminator in an aligned chunk
\* that has more zero bytes after it.
C10_Witness ==
    /\ Returned("strider_strchr_simd")
    /\ ch = 256
    /\ ptr > data
    /\ ret = Terminator
    /\ Terminator % VECTOR_SIZE # VECTOR_SIZE - 1
    /\ mem[Terminator + 1] = NUL

\* C23: strider_strchr_simd reads only bytes of the searched region
\* [str, terminator]: no byte located after the string's terminator.
C23_StrchrReadsUpToTerminator ==
    fn = "strider_strchr_simd" => reads \subseteq data..Terminator

\* C24: every byte strider_strchr_simd reads lies in [str, terminator] or in
\* the W-aligned block of the terminator; no aligned chunk that starts after
\* the terminator is loaded, and the prefix scan reads nothing after the
\* first terminator or target it meets.
C24_StrchrReadsWithinTerminatorBlock ==
    fn = "strider_strchr_simd" =>
        /\ reads \subseteq data..BlockEnd(VECTOR_SIZE, Terminator)
        /\ \A a \in loads : a <= Terminator
        /\ loads = {} =>
               \A a \in reads : \A b \in data..(a - 1) :
                   mem[b] # NUL /\ mem[b] # TargetByte

\* The chunk that holds the terminator is loaded and bytes after the
\* terminator, up to the end of its block, are read.
C24_Witness ==
    /\ Returned("strider_strchr_simd")
    /\ loads # {}
    /\ Terminator + 1 \in reads
    /\ BlockEnd(VECTOR_SIZE, Terminator) \in reads
    /\ BlockEnd(VECTOR_SIZE, Terminator) > Terminator + 1
    /\ data % VECTOR_SIZE # 0

\* The last chunk loaded.
LastChunk == CHOOSE a \in loads : \A b \in loads : b <= a

\* C25: in the aligned chunk that holds a terminator, a target match is
\* returned only when its lane is strictly before the first terminator's
\* lane; otherwise the result is NULL, or the terminator's address when the
\* target is the zero byte: a target byte after the terminator in the same
\* chunk is never returned.
C25_TargetAfterTerminatorNotReturned ==
    (Returned("strider_strchr_simd") /\ loads # {}
        /\ Terminator \in VecLoadReads(VECTOR_SIZE, LastChunk)) =>
        /\ ret # NULL /\ TargetByte # NUL =>
               /\ ret < Terminator
               /\ mem[ret] = TargetByte
        /\ (\A a \in LastChunk..(Terminator - 1) : mem[a] # TargetByte) =>
               ret = (IF TargetByte = NUL THEN Terminator ELSE NULL)
        /\ ret # NULL => ret <= Terminator

\* The target occurs only after the terminator in the terminator's chunk,
\* and the search returns NULL.
C25_Witness ==
    /\ Returned("strider_strchr_simd")
    /\ loads # {}
    /\ ch = LetterA
    /\ Terminator \in VecLoadReads(VECTOR_SIZE, LastChunk)
    /\ Terminator > LastChunk
    /\ mem[Terminator + 1] = LetterA
    /\ Occurrences(LetterA) = {}
    /\ ret = NULL

(***************************************************************************)
(* Both SIMD functions called on the same strings                          *)
(***************************************************************************)
\* Memory holding a string of `len` bytes at address a: Filler, with
\* LetterA as its first byte, as its last byte, or nowhere; zero bytes from
\* the terminator to the end of the terminator's aligned block.
CallImages(W, a, len) ==
    { [x \in a..BlockEnd(W, a + len) |->
          IF x - a >= len THEN NUL
          ELSE IF x - a = w THEN LetterA
          ELSE Filler]
      : w \in {0, len - 1, len} }

\* Every start offset modulo the vector width and every length, the lengths
\* shorter than the unaligned prefix included.
InitSimdCalls ==
    /\ VECTOR_SIZE \in VectorSizes
    /\ data \in {HeapBase + o : o \in 0..(VECTOR_SIZE - 1)}
    /\ size \in 0..MaxStrLen
    /\ mem \in CallImages(VECTOR_SIZE, data, size)
    /\ ch \in {NUL, LetterA}
    /\ positions = FreshPositions
    /\ max_positions = 0
    /\ pc = "idle"
    /\ fn = NoCall
    /\ ptr = data
    /\ rem = size
    /\ count = 0
    /\ ret = 0
    /\ OtherIdle

NextSimdCalls ==
    \/ SimdPrefix
    \/ SimdChunk
    \/ SimdTail
    \/ StrchrSimdPrefix
    \/ StrchrSimdChunk

\* A call that has started keeps running: its next step is taken.
SpecSimdCalls == InitSimdCalls /\ [][NextSimdCalls]_vars /\ WF_vars(NextSimdCalls)

\* C21: in strider_strchr_simd and strider_count_newlines_simd every address
\* passed to an aligned vector load is a multiple of the vector width, for
\* every start offset and every length, the buffers shorter than the
\* unaligned prefix included.
C21_AlignedLoadsOnly ==
    /\ \A a \in loads : a % VECTOR_SIZE = 0
    /\ (pc = "loop" /\ fn = "strider_strchr_simd") => ptr % VECTOR_SIZE = 0
    /\ (pc = "loop" /\ fn = "strider_count_newlines_simd" /\ rem >= VECTOR_SIZE) =>
           ptr % VECTOR_SIZE = 0
    /\ (pc = "loop" /\ fn = "strider_count_newlines_simd" /\ ptr % VECTOR_SIZE # 0) =>
           /\ ptr = data
           /\ rem < VECTOR_SIZE

\* A search that loaded two aligned chunks after an unaligned prefix.
C21_Witness ==
    /\ Returned("strider_strchr_simd")
    /\ data % VECTOR_SIZE # 0
    /\ Cardinality(loads) = 2
    /\ \A a \in loads : a > data

\* C26: every call terminates.  In strider_count_newlines_simd the bytes
\* processed plus the remaining size is the original size and each vector
\* iteration lowers the remaining size by W; strider_strchr_simd loads no
\* chunk after the one that holds the first terminator.
C26_CallsTerminate ==
    /\ <>(pc = "done")
    /\ []((fn = "strider_count_newlines_simd" /\ pc = "loop") =>
              /\ (ptr - data) + rem = size
              /\ rem >= 0)
    /\ [][(fn = "strider_count_newlines_simd" /\ pc = "loop" /\ pc' = "loop") =>
              rem' = rem - VECTOR_SIZE]_vars
    /\ []((fn = "strider_strchr_simd" /\ pc = "loop") =>
              ptr <= Terminator - (Terminator % VECTOR_SIZE))

\* A count that ran an unaligned prefix, a vector iteration and a tail.
C26_Witness ==
    /\ Returned("strider_count_newlines_simd")
    /\ data % VECTOR_SIZE # 0
    /\ loads # {}
    /\ ptr + rem = data + size
    /\ rem > 0

(***************************************************************************)
(* uint32_t arithmetic on masks (sets of bit positions), modulo 2^32       *)
(***************************************************************************)
Bits32 == 0..31

Shl32(a, k) == {b + k : b \in a} \cap Bits32        \* a << k
Shr32(a, k) == {b - k : b \in {c \in a : c >= k}}   \* a >> k
And32(a, b) == a \cap b                             \* a & b
Not32(a) == Bits32 \ a                              \* ~a

\* a + b: add without carry, then add the carries one position up.
RECURSIVE Add32(_, _)
Add32(a, b) ==
    IF b = {} THEN a
    ELSE Add32((a \cup b) \ (a \cap b), Shl32(a \cap b, 1))

Neg32(a) == Add32(Not32(a), {0})                    \* -a
Sub32(a, b) == Add32(a, Neg32(b))                   \* a - b

\* a * b: the sum of b << i over the set bits i of a.
RECURSIVE MulLoop(_, _, _, _)
MulLoop(a, b, i, acc) ==
    IF i > 31 THEN acc
    ELSE MulLoop(a, b, i + 1, IF i \in a THEN Add32(acc, Shl32(b, i)) ELSE acc)

Mul32(a, b) == MulLoop(a, b, 0, {})

\* The number a mask of at most 5 bits stands for.
RECURSIVE Pow2(_)
Pow2(n) == IF n = 0 THEN 1 ELSE 2 * Pow2(n - 1)

RECURSIVE SmallValue(_)
SmallValue(a) ==
    IF a = {} THEN 0 ELSE Pow2(Min(a)) + SmallValue(a \ {Min(a)})

(***************************************************************************)
(* Bit utilities, by build                                                 *)
(***************************************************************************)
Compilers == {"gnuc", "msvc", "portable"}

\* 0x077CB531U
DeBruijnMultiplier == {0, 4, 5, 8, 10, 12, 13, 15, 18, 19, 20, 21, 22, 24, 25, 26}

\* Mutation of debruijn32: two neighbouring entries are exchanged.
debruijn32_swapped ==
    <<0, 1, 28, 2, 29, 14, 24, 3, 30, 22, 20, 15, 25, 17, 4, 8,
      31, 27, 13, 23, 21, 19, 16, 7, 26, 12, 18, 6, 11, 5, 9, 10>>

\* static const int debruijn32[32], entry k at index k + 1.
debruijn32 ==
    <<0, 1, 28, 2, 29, 14, 24, 3, 30, 22, 20, 15, 25, 17, 4, 8,
      31, 27, 13, 23, 21, 19, 16, 7, 26, 12, 18, 6, 11, 5, 10, 9>>

\* debruijn32[((x & -x) * 0x077CB531U) >> 27]
DeBruijnCtz(w) ==
    debruijn32[SmallValue(Shr32(Mul32(And32(w, Neg32(w)), DeBruijnMultiplier), 27)) + 1]

\* strider_ctz32 as the build compiles it.
Ctz32On(b, w) ==
    IF w = {} THEN 32
    ELSE IF b = "portable" THEN DeBruijnCtz(w)
    ELSE Min(w)     \* __builtin_ctz / _BitScanForward: index of the lowest set bit

\* Mutation of KernighanLoop: the word is shifted, not cleared of its lowest bit.
RECURSIVE KernighanLoopShift(_, _)
KernighanLoopShift(w, c) ==
    IF w = {} THEN c ELSE KernighanLoopShift(Shr32(w, 1), c + 1)

\* while (x) { x &= x - 1; count++; }
RECURSIVE KernighanLoop(_, _)
KernighanLoop(w, c) ==
    IF w = {} THEN c ELSE KernighanLoop(And32(w, Sub32(w, {0})), c + 1)

\* strider_popcount32 as the build compiles it.
Popcount32On(b, w) ==
    IF b = "portable" THEN KernighanLoop(w, 0)
    ELSE Cardinality(w)     \* __builtin_popcount / __popcnt: number of set bits

(***************************************************************************)
(* Bit utilities: inputs and calls                                         *)
(***************************************************************************)
\* Words: a run of MaxBitRun arbitrary bits placed anywhere, with the bits
\* from some position upward either all clear or all set.
Words ==
    { Shl32(run, s) \cup high :
        run \in SUBSET (0..(MaxBitRun - 1)), s \in Bits32,
        high \in {{}} \cup {h..31 : h \in Bits32} }

CoreIdle ==
    /\ VECTOR_SIZE = 16
    /\ mem = <<>>
    /\ data = NULL
    /\ size = 0
    /\ ch = 0
    /\ positions = <<>>
    /\ max_positions = 0
    /\ ptr = NULL
    /\ rem = 0
    /\ count = 0

CallIdle == pc = "idle" /\ fn = NoCall /\ ret = 0

InitBits ==
    /\ CoreIdle /\ CallIdle /\ TraceIdle
    /\ arg_x \in Words
    /\ build \in Compilers
    /\ VecIdle /\ AlignIdle /\ CpuIdle /\ DescIdle

CallCtz32 ==
    /\ pc = "idle"
    /\ fn' = "strider_ctz32"
    /\ ret' = Ctz32On(build, arg_x)
    /\ pc' = "done"
    /\ UNCHANGED <<coreVars, otherVars, traceVars>>

CallPopcount32 ==
    /\ pc = "idle"
    /\ fn' = "strider_popcount32"
    /\ ret' = Popcount32On(build, arg_x)
    /\ pc' = "done"
    /\ UNCHANGED <<coreVars, otherVars, traceVars>>

NextBits == CallCtz32 \/ CallPopcount32

SpecBits == InitBits /\ [][NextBits]_vars

(***************************************************************************)
(* Properties of the bit utilities (under SpecBits)                        *)
(***************************************************************************)
\* C11: strider_ctz32(0) is 32; for x # 0 strider_ctz32(x) is the index of
\* the lowest set bit of x, so strider_ctz32(1 << k) = k for k in 0..31;
\* the result always lies in 0..32.
C11_CtzIsLowestSetBit ==
    Returned("strider_ctz32") =>
        /\ ret \in 0..32
        /\ (arg_x = {}) <=> (ret = 32)
        /\ arg_x # {} =>
              /\ ret \in arg_x
              /\ \A j \in 0..(ret - 1) : j \notin arg_x
        /\ \A k \in Bits32 : arg_x = {k} => ret = k

\* The table path on a word whose lowest set bit is bit 30, with bit 31 set.
C11_Witness ==
    /\ Returned("strider_ctz32")
    /\ build = "portable"
    /\ arg_x = {30, 31}
    /\ ret = 30

\* The bit-by-bit loop: for (i = 0; i < 32; i++) n += (x >> i) & 1.
RECURSIVE NaiveBitCount(_, _)
NaiveBitCount(w, i) ==
    IF i > 31 THEN 0
    ELSE (IF i \in w THEN 1 ELSE 0) + NaiveBitCount(w, i + 1)

\* C12: strider_popcount32(x) is the number of set bits of x as a naive
\* bit-by-bit loop counts them (0 for 0, 32 for 0xFFFFFFFF), on the
\* clear-lowest-set-bit path as on the intrinsic paths.
C12_PopcountIsBitCount ==
    Returned("strider_popcount32") =>
        /\ ret = NaiveBitCount(arg_x, 0)
        /\ arg_x = {} => ret = 0
        /\ arg_x = Bits32 => ret = 32

\* The clear-lowest-set-bit path on 0xFFFFFFFF.
C12_Witness ==
    /\ Returned("strider_popcount32")
    /\ build = "portable"
    /\ arg_x = Bits32
    /\ ret = 32

(***************************************************************************)
(* Vector compare and mask extraction on each build's code path            *)
(***************************************************************************)
MaxLaneRun == 2         \* length of the run of arbitrary lanes in a vector

Archs == {"x86_64", "arm64", "scalar"}

\* uint8_t operations of the emulated paths.
ShrU8(v, k) == v \div Pow2(k)                       \* v >> k
AndBit(v, k) == ((v \div Pow2(k)) % 2) * Pow2(k)    \* v & (1 << k), k in 0..7

\* The two 128-bit halves data[0], data[1] of an emulated 256-bit vector.
LoHalf(vec) == [i \in 0..15 |-> vec[i]]
HiHalf(vec) == [i \in 0..15 |-> vec[16 + i]]
Join(lo, hi) == [i \in 0..31 |-> IF i < 16 THEN lo[i] ELSE hi[i - 16]]

\* strider_vec128_cmpeq / strider_vec256_cmpeq on the build's path.
Cmpeq128On(b, x, y) == strider_vec128_cmpeq(x, y)
Cmpeq256On(b, x, y) ==
    IF b = "arm64"
    THEN Join(strider_vec128_cmpeq(LoHalf(x), LoHalf(y)),
              strider_vec128_cmpeq(HiHalf(x), HiHalf(y)))
    ELSE strider_vec256_cmpeq(x, y)

\* ARM path: shifted = vshrq_n_u8(vec, 7); vst1q_u8(bytes, shifted);
\* for each i: mask |= (bytes[i] & 1) << i.
RECURSIVE NeonMaskLoop(_, _, _)
NeonMaskLoop(bytes, i, mask) ==
    IF i >= 16 THEN mask
    ELSE NeonMaskLoop(bytes, i + 1,
                      mask \cup Shl32(IF AndBit(bytes[i], 0) = 1 THEN {0} ELSE {}, i))
NeonMovemask128(vec) == NeonMaskLoop([i \in 0..15 |-> ShrU8(vec[i], 7)], 0, {})

\* Scalar path: for each i: if (vec.data[i] & 0x80) mask |= (1U << i).
RECURSIVE ScalarMaskLoop(_, _, _, _)
ScalarMaskLoop(vec, n, i, mask) ==
    IF i >= n THEN mask
    ELSE ScalarMaskLoop(vec, n, i + 1,
                        IF AndBit(vec[i], 7) # 0 THEN mask \cup Shl32({0}, i) ELSE mask)

\* Mutation of Neon256Combine: hi_mask is not shifted.
Neon256CombineNoShift(lo_mask, hi_mask) == lo_mask \cup hi_mask

\* return lo_mask | (hi_mask << 16);
Neon256Combine(lo_mask, hi_mask) == lo_mask \cup Shl32(hi_mask, 16)

Movemask128On(b, vec) ==
    IF b = "x86_64" THEN strider_vec128_movemask(vec)
    ELSE IF b = "arm64" THEN NeonMovemask128(vec)
    ELSE ScalarMaskLoop(vec, 16, 0, {})

Movemask256On(b, vec) ==
    IF b = "x86_64" THEN strider_vec256_movemask(vec)
    ELSE IF b = "arm64"
         THEN Neon256Combine(NeonMovemask128(LoHalf(vec)), NeonMovemask128(HiHalf(vec)))
    ELSE ScalarMaskLoop(vec, 32, 0, {})

CmpeqOn(W, b, x, y) == IF W = 32 THEN Cmpeq256On(b, x, y) ELSE Cmpeq128On(b, x, y)
MovemaskOn(W, b, vec) == IF W = 32 THEN Movemask256On(b, vec) ELSE Movemask128On(b, vec)

\* The lane values tried: 0x00, 0x01, 0x80, 0xFF.
LaneValues == {0, 1, 128, 255}

\* Vectors of L lanes: lanes of 0x00 or of the filler byte, with a run of
\* arbitrary lanes.
Vectors(L) ==
    { [i \in 0..(L - 1) |->
          IF i >= s /\ i < s + MaxLaneRun THEN w[i - s + 1] ELSE f] :
      s \in 0..(L - 1), w \in [1..MaxLaneRun -> LaneValues], f \in {0, Filler} }

\* Second operands: a broadcast value (set1), or a with lanes 5 and 10 made
\* 0xFF as test_vec128_cmpeq_different_vectors does.
Others(L, a) ==
    { [i \in 0..(L - 1) |-> v] : v \in LaneValues }
    \cup { [a EXCEPT ![5] = 255, ![10] = 255] }

InitVec ==
    /\ VECTOR_SIZE \in VectorSizes
    /\ mem = <<>> /\ data = NULL /\ size = 0 /\ ch = 0
    /\ positions = <<>> /\ max_positions = 0
    /\ ptr = NULL /\ rem = 0 /\ count = 0
    /\ CallIdle /\ TraceIdle
    /\ arg_x = {}
    /\ build \in Archs
    /\ va \in Vectors(VECTOR_SIZE)
    /\ vb \in Others(VECTOR_SIZE, va)
    /\ AlignIdle /\ CpuIdle /\ DescIdle

\* result = strider_vecN_cmpeq(a, b)
CallCmpeq ==
    /\ pc = "idle"
    /\ pc' = "done"
    /\ fn' = "cmpeq"
    /\ ret' = CmpeqOn(VECTOR_SIZE, build, va, vb)
    /\ UNCHANGED <<coreVars, otherVars, traceVars>>

\* mask = strider_vecN_movemask(a)
CallMovemask ==
    /\ pc = "idle"
    /\ pc' = "done"
    /\ fn' = "movemask"
    /\ ret' = MovemaskOn(VECTOR_SIZE, build, va)
    /\ UNCHANGED <<coreVars, otherVars, traceVars>>

\* mask = strider_vecN_movemask(strider_vecN_cmpeq(a, b))
CallCmpeqMovemask ==
    /\ pc = "idle"
    /\ pc' = "done"
    /\ fn' = "cmpeq_movemask"
    /\ ret' = MovemaskOn(VECTOR_SIZE, build, CmpeqOn(VECTOR_SIZE, build, va, vb))
    /\ UNCHANGED <<coreVars, otherVars, traceVars>>

NextVec == CallCmpeq \/ CallMovemask \/ CallCmpeqMovemask

SpecVec == InitVec /\ [][NextVec]_vars

(***************************************************************************)
(* Properties of compare and mask extraction (under SpecVec)               *)
(***************************************************************************)
Lanes == 0..(VECTOR_SIZE - 1)

\* C13: each lane of cmpeq(a, b) is 0xFF when a[i] = b[i] and 0x00
\* otherwise; movemask(cmpeq(a, b)) has bit i set iff a[i] = b[i] for every
\* lane i < L and no bit at position >= L.
C13_CmpeqLanesAndMask ==
    /\ Returned("cmpeq") =>
           \A i \in Lanes : ret[i] = (IF va[i] = vb[i] THEN 255 ELSE 0)
    /\ Returned("cmpeq_movemask") =>
           /\ \A i \in Lanes : (i \in ret) <=> (va[i] = vb[i])
           /\ \A i \in Bits32 : i >= VECTOR_SIZE => i \notin ret

\* The emulated 256-bit path with equal and different lanes in both halves.
C13_Witness ==
    /\ Returned("cmpeq_movemask")
    /\ VECTOR_SIZE = 32
    /\ build = "arm64"
    /\ va[15] # vb[15] /\ va[16] = vb[16]
    /\ va[0] # vb[0] /\ va[31] # vb[31]
    /\ ret = {16}

\* C14 as stated: movemask(v) has bit i set iff lane i of v is non-zero,
\* for any lane values.
C14_BitIffLaneNonZero ==
    Returned("movemask") =>
        \A i \in Lanes : (i \in ret) <=> (va[i] # 0)

\* C14 as the code has it: movemask(v) has bit i set iff the top bit (0x80)
\* of lane i is set; on a vector whose lanes are all 0x00 or 0xFF (a compare
\* result) that is the same as lane i being non-zero.
C14_BitIffLaneTopBit ==
    Returned("movemask") =>
        /\ \A i \in Lanes : (i \in ret) <=> (va[i] \div 128 = 1)
        /\ (\A i \in Lanes : va[i] \in {0, 255}) =>
               \A i \in Lanes : (i \in ret) <=> (va[i] # 0)

\* A vector with a non-zero lane whose top bit is clear next to one whose
\* top bit is set.
C14_Witness ==
    /\ Returned("movemask")
    /\ va[3] = 1 /\ va[4] = 128
    /\ 3 \notin ret /\ 4 \in ret

\* C15: the ARM path and the scalar path give the mask the native
\* instruction gives (bit i = top bit of lane i) for every vector, and the
\* emulated 256-bit mask maps lane 16+j to bit 16+j for every j in 0..15.
C15_EmulatedMasksAgreeWithNative ==
    Returned("movemask") =>
        /\ ret = (IF VECTOR_SIZE = 32 THEN strider_vec256_movemask(va)
                                      ELSE strider_vec128_movemask(va))
        /\ VECTOR_SIZE = 32 =>
               \A j \in 0..15 : (16 + j \in ret) <=> (va[16 + j] >= 128)

\* The emulated 256-bit path on a vector with top bits set across the halves.
C15_Witness ==
    /\ Returned("movemask")
    /\ VECTOR_SIZE = 32
    /\ build = "arm64"
    /\ va[15] = 255 /\ va[16] = 128
    /\ ret = {15, 16}

(***************************************************************************)
(* strider_get_cpu_features: the cached capability descriptor              *)
(*                                                                         *)
(* A descriptor is a record of the fields of strider_cpu_features_t; the   *)
(* has_* flags are held as the set of the flags that are true.  Threads    *)
(* run the function statement by statement; the two statics are shared.    *)
(***************************************************************************)
MaxCalls == 3           \* calls of strider_get_cpu_features per thread
MaxThreads == 2         \* concurrent callers

\* cached_features = {0}, and memset(&cached_features, 0, sizeof ...).
ZeroFeatures ==
    [arch_x86_64 |-> FALSE, arch_arm64 |-> FALSE, has |-> {},
     vendor |-> "", family |-> 0, model |-> 0]

\* What CPUID reports on x86_64: the vendor string of leaf 0, family and
\* model of leaf 1, and the feature bits of leaves 1 and 7.
X86Reports ==
    [vendor : {"GenuineIntel", "AuthenticAMD"}, family : {6}, model : {10},
     has : {{"sse2"}, {"sse2", "sse3", "ssse3", "sse4_1", "sse4_2"},
            {"sse2", "sse3", "ssse3", "sse4_1", "sse4_2", "avx", "avx2"}}]

\* What getauxval / sysctlbyname report on ARM64.
ArmReports ==
    [vendor : {"ARM"}, family : {0}, model : {0}, has : {{"neon"}, {"neon", "sve"}}]

\* A build for an unknown architecture detects nothing.
NoReport == [vendor |-> "", family |-> 0, model |-> 0, has |-> {}]

Reports(b) ==
    IF b = "x86_64" THEN X86Reports
    ELSE IF b = "arm64" THEN ArmReports
    ELSE {NoReport}

InitCpuOf(threads) ==
    /\ CoreIdle /\ CallIdle /\ TraceIdle
    /\ arg_x = {}
    /\ build \in Archs
    /\ hw \in Reports(build)
    /\ VecIdle /\ AlignIdle /\ DescIdle
    /\ initialized = FALSE
    /\ cached_features = ZeroFeatures
    /\ tpc = [t \in threads |-> "idle"]
    /\ tret = [t \in threads |-> ZeroFeatures]
    /\ calls = [t \in threads |-> 0]
    /\ detections = 0
    /\ published = {}
    /\ late = [t \in threads |-> {}]

cpuRest == <<coreVars, callVars, bitVars, vecVars, alignVars, descVars, traceVars, hw>>

\* A thread calls strider_get_cpu_features().
BeginCall(t) ==
    /\ tpc[t] = "idle"
    /\ calls[t] < MaxCalls
    /\ tpc' = [tpc EXCEPT ![t] = "check"]
    /\ calls' = [calls EXCEPT ![t] = @ + 1]
    /\ late' = [late EXCEPT ![t] = published]
    /\ UNCHANGED <<cpuRest, initialized, cached_features, tret, detections, published>>

\* if (initialized) { return cached_features; }
CheckInitialized(t) ==
    /\ tpc[t] = "check"
    /\ tpc' = [tpc EXCEPT ![t] = IF initialized THEN "return" ELSE "memset"]
    /\ UNCHANGED <<cpuRest, initialized, cached_features, tret, calls, detections,
                   published, late>>

\* memset(&cached_features, 0, sizeof(cached_features));
Memset(t) ==
    /\ tpc[t] = "memset"
    /\ cached_features' = ZeroFeatures
    /\ detections' = detections + 1
    /\ tpc' = [tpc EXCEPT ![t] =
                  IF build = "x86_64" \/ build = "arm64" THEN "arch" ELSE "initialized"]
    /\ UNCHANGED <<cpuRest, initialized, tret, calls, published, late>>

\* cached_features.arch_x86_64 = true;  or  cached_features.arch_arm64 = true;
SetArch(t) ==
    /\ tpc[t] = "arch"
    /\ cached_features' =
           IF build = "x86_64" THEN [cached_features EXCEPT !.arch_x86_64 = TRUE]
           ELSE [cached_features EXCEPT !.arch_arm64 = TRUE]
    /\ tpc' = [tpc EXCEPT ![t] = IF build = "x86_64" THEN "x86_vendor" ELSE "arm_flags"]
    /\ UNCHANGED <<cpuRest, initialized, tret, calls, detections, published, late>>

\* detect_x86_features: vendor string, family and model.
DetectX86Vendor(t) ==
    /\ tpc[t] = "x86_vendor"
    /\ cached_features' = [cached_features EXCEPT !.vendor = hw.vendor,
                                                  !.family = hw.family,
                                                  !.model = hw.model]
    /\ tpc' = [tpc EXCEPT ![t] = "x86_flags"]
    /\ UNCHANGED <<cpuRest, initialized, tret, calls, detections, published, late>>

\* detect_x86_features: the has_* flags of CPUID leaves 1 and 7.
DetectX86Flags(t) ==
    /\ tpc[t] = "x86_flags"
    /\ cached_features' = [cached_features EXCEPT !.has = hw.has]
    /\ tpc' = [tpc EXCEPT ![t] = "initialized"]
    /\ UNCHANGED <<cpuRest, initialized, tret, calls, detections, published, late>>

\* detect_arm_features: has_neon, has_sve, has_sve2.
DetectArmFlags(t) ==
    /\ tpc[t] = "arm_flags"
    /\ cached_features' = [cached_features EXCEPT !.has = hw.has]
    /\ tpc' = [tpc EXCEPT ![t] = "arm_vendor"]
    /\ UNCHANGED <<cpuRest, initialized, tret, calls, detections, published, late>>

\* detect_arm_features: strcpy(features->vendor, "ARM");
DetectArmVendor(t) ==
    /\ tpc[t] = "arm_vendor"
    /\ cached_features' = [cached_features EXCEPT !.vendor = hw.vendor]
    /\ tpc' = [tpc EXCEPT ![t] = "initialized"]
    /\ UNCHANGED <<cpuRest, initialized, tret, calls, detections, published, late>>

\* Mutation of SetInitialized: the flag is left false.
SetInitializedNot(t) ==
    /\ tpc[t] = "initialized"
    /\ tpc' = [tpc EXCEPT ![t] = "return"]
    /\ UNCHANGED <<cpuRest, initialized, cached_features, tret, calls, detections,
                   published, late>>

\* initialized = true;
SetInitialized(t) ==
    /\ tpc[t] = "initialized"
    /\ initialized' = TRUE
    /\ tpc' = [tpc EXCEPT ![t] = "return"]
    /\ UNCHANGED <<cpuRest, cached_features, tret, calls, detections, published, late>>

\* return cached_features;  (the copy of the static into the result)
ReturnFeatures(t) ==
    /\ tpc[t] = "return"
    /\ tret' = [tret EXCEPT ![t] = cached_features]
    /\ published' = published \cup {cached_features}
    /\ tpc' = [tpc EXCEPT ![t] = "idle"]
    /\ UNCHANGED <<cpuRest, initialized, cached_features, calls, detections, late>>

NextCpu ==
    \E t \in DOMAIN tpc :
        \/ BeginCall(t)
        \/ CheckInitialized(t)
        \/ Memset(t)
        \/ SetArch(t)
        \/ DetectX86Vendor(t)
        \/ DetectX86Flags(t)
        \/ DetectArmFlags(t)
        \/ DetectArmVendor(t)
        \/ SetInitialized(t)
        \/ ReturnFeatures(t)

\* One thread: every call returns before the next begins.
InitCpuSequential == InitCpuOf({1})
SpecCpuSequential == InitCpuSequential /\ [][NextCpu]_vars

\* Several threads, interleaved statement by statement.
InitCpuConcurrent == InitCpuOf(1..MaxThreads)
SpecCpuConcurrent == InitCpuConcurrent /\ [][NextCpu]_vars

(***************************************************************************)
(* Properties of strider_get_cpu_features                                  *)
(***************************************************************************)
Threads == DOMAIN tpc
HasReturned(t) == calls[t] > 0 /\ (tpc[t] = "idle" \/ calls[t] > 1)
Detecting(t) ==
    tpc[t] \in {"memset", "arch", "x86_vendor", "x86_flags", "arm_flags",
                "arm_vendor", "initialized"}

\* C16 (under SpecCpuSequential): every call returns the descriptor the
\* first call returned, the detection code runs only during the first call,
\* and once initialized is true it stays true and cached_features is not
\* written again.
C16_SequentialCallsAreConsistent ==
    /\ [](/\ Cardinality(published) <= 1
          /\ detections <= 1
          /\ \A t \in Threads : HasReturned(t) => published = {tret[t]}
          /\ \A t \in Threads : Detecting(t) => calls[t] = 1)
    /\ [][initialized =>
              /\ initialized'
              /\ cached_features' = cached_features
              /\ detections' = detections]_vars

\* A second call has returned the descriptor of the first, on a machine
\* that reports AVX2.
C16_Witness ==
    /\ build = "x86_64"
    /\ "avx2" \in hw.has
    /\ calls[1] = 2 /\ tpc[1] = "idle"
    /\ tret[1] = cached_features
    /\ tret[1].has = hw.has /\ tret[1].vendor = hw.vendor /\ tret[1].arch_x86_64
    /\ detections = 1

\* C17 (under SpecCpuConcurrent): the detection sequence (memset followed
\* by detect_*_features) is executed by at most one of the concurrent first
\* callers.
C17_DetectionAtMostOnce ==
    /\ detections <= 1
    /\ Cardinality({t \in Threads : Detecting(t)}) <= 1

\* C18 (under SpecCpuConcurrent): once some call has returned a descriptor
\* D, every call that begins afterwards returns a descriptor equal to D.
C18_LaterCallsReturnSameDescriptor ==
    \A t \in Threads :
        (tpc[t] = "idle" /\ calls[t] > 0) => \A D \in late[t] : tret[t] = D

(***************************************************************************)
(* strider_is_aligned                                                      *)
(***************************************************************************)
MaxAddress == 130       \* largest address tried
MaxAlignLog == 6        \* largest alignment tried is 2^MaxAlignLog

\* a & b on uintptr_t values.
RECURSIVE BitAnd(_, _)
BitAnd(a, b) ==
    IF a = 0 \/ b = 0 THEN 0
    ELSE (a % 2) * (b % 2) + 2 * BitAnd(a \div 2, b \div 2)

\* Mutation of strider_is_aligned: the mask is alignment, not alignment - 1.
strider_is_aligned_nomask(p, a) == BitAnd(p, a) = 0

\* return ((uintptr_t) ptr & (alignment - 1)) == 0;
strider_is_aligned(p, a) == BitAnd(p, a - 1) = 0

PowersOfTwo == {Pow2(k) : k \in 0..MaxAlignLog}

InitAlign ==
    /\ VECTOR_SIZE = 16
    /\ mem = <<>>
    /\ data \in 0..MaxAddress
    /\ size = 0 /\ ch = 0
    /\ positions = <<>> /\ max_positions = 0
    /\ ptr = NULL /\ rem = 0 /\ count = 0
    /\ CallIdle /\ TraceIdle
    /\ BitsIdle /\ VecIdle /\ CpuIdle /\ DescIdle
    /\ alignment \in PowersOfTwo

\* strider_is_aligned(ptr, alignment)
CallIsAligned ==
    /\ pc = "idle"
    /\ pc' = "done"
    /\ fn' = "strider_is_aligned"
    /\ ret' = strider_is_aligned(data, alignment)
    /\ UNCHANGED <<coreVars, otherVars, traceVars>>

\* strider_is_aligned(ptr + 1, alignment), as the tests call it on buffer + 1.
CallIsAlignedNext ==
    /\ pc = "idle"
    /\ pc' = "done"
    /\ fn' = "strider_is_aligned_next"
    /\ ret' = strider_is_aligned(data + 1, alignment)
    /\ UNCHANGED <<coreVars, otherVars, traceVars>>

NextAlign == CallIsAligned \/ CallIsAlignedNext

SpecAlign == InitAlign /\ [][NextAlign]_vars

\* C19: for a power-of-two alignment a, strider_is_aligned(p, a) is true
\* iff p mod a = 0; an address aligned to a is aligned to every smaller
\* power of two; p + 1 is not aligned to a >= 2 when p is.
C19_AlignedIffMultiple ==
    /\ Returned("strider_is_aligned") =>
           /\ ret <=> (data % alignment = 0)
           /\ ret => \A b \in PowersOfTwo : b < alignment => strider_is_aligned(data, b)
    /\ Returned("strider_is_aligned_next") =>
           /\ ret <=> ((data + 1) % alignment = 0)
           /\ (alignment >= 2 /\ data % alignment = 0) => ~ret

\* An address that is a multiple of 64 two times over, checked against 64.
C19_Witness ==
    /\ Returned("strider_is_aligned")
    /\ alignment = 64
    /\ data = 128
    /\ ret = TRUE

(***************************************************************************)
(* strider_describe_cpu_features                                           *)
(*                                                                         *)
(* Text is a string; buffer is memory: cell -> one character, "" for the   *)
(* terminating NUL and "?" for a cell nothing has written.  The cells from *)
(* buffer_size on are the memory after the caller's buffer.                *)
(***************************************************************************)
MaxBufferSize == 128    \* largest buffer_size; memory has one cell more

Indeterminate == "?"
NulChar == ""

\* The has_* tests in the order of the code, with the line each prints.
X86FlagLines ==
    << <<"sse2", "  - SSE2\n">>, <<"sse3", "  - SSE3\n">>,
       <<"ssse3", "  - SSSE3\n">>, <<"sse4_1", "  - SSE4.1\n">>,
       <<"sse4_2", "  - SSE4.2\n">>, <<"avx", "  - AVX\n">>,
       <<"avx2", "  - AVX2\n">>, <<"avx512f", "  - AVX-512F\n">>,
       <<"avx512bw", "  - AVX-512BW\n">> >>
ArmFlagLines ==
    << <<"neon", "  - NEON\n">>, <<"sve", "  - SVE\n">>, <<"sve2", "  - SVE2\n">> >>

FlagLines(b, f) ==
    LET table == IF b = "x86_64" THEN X86FlagLines
                 ELSE IF b = "arm64" THEN ArmFlagLines
                 ELSE <<>>
        printed == SelectSeq(table, LAMBDA e : e[1] \in f.has)
    IN  [i \in 1..Len(printed) |-> printed[i][2]]

\* The formatted text of each snprintf the call makes, in order.
Lines(b, f) ==
    << "Architecture: " \o (IF f.arch_x86_64 THEN "x86_64" ELSE "ARM64") \o "\n" >>
    \o (IF f.vendor # "" THEN << "Vendor: " \o f.vendor \o "\n" >> ELSE <<>>)
    \o << "SIMD Features:\n" >>
    \o FlagLines(b, f)

\* snprintf returns the length the text would have, whatever n is.
SnprintfReturn(n, text) == Len(text)

\* snprintf(buf + dst, n, text): at most n - 1 characters and a NUL.
Snprintf(buf, dst, n, text) ==
    IF n = 0 THEN buf
    ELSE LET k == IF Len(text) < n - 1 THEN Len(text) ELSE n - 1
         IN  [i \in DOMAIN buf |->
                 IF i >= dst /\ i < dst + k THEN SubSeq(text, i - dst + 1, i - dst + 1)
                 ELSE IF i = dst + k THEN NulChar
                 ELSE buf[i]]

\* The descriptor strider_get_cpu_features builds from a report.
FeaturesOf(b, r) ==
    [arch_x86_64 |-> b = "x86_64", arch_arm64 |-> b = "arm64", has |-> r.has,
     vendor |-> r.vendor, family |-> r.family, model |-> r.model]

\* buffer_size - written is computed in size_t: when written > buffer_size
\* it wraps to a value above INT_MAX and buffer + written points past the
\* buffer.  A C library either formats without a limit or fails with
\* EOVERFLOW and returns -1.
Libcs == {"unbounded", "eoverflow"}

InitDescribe ==
    /\ CoreIdle /\ CallIdle /\ TraceIdle
    /\ arg_x = {}
    /\ build \in Archs
    /\ VecIdle /\ AlignIdle /\ CpuIdle
    /\ features \in {FeaturesOf(build, r) : r \in Reports(build)}
    /\ buffer_size \in 0..MaxBufferSize
    /\ buffer = [i \in 0..MaxBufferSize |-> Indeterminate]
    /\ written = 0
    /\ piece = 0
    /\ libc \in Libcs

descRest == <<coreVars, bitVars, vecVars, alignVars, cpuVars, traceVars,
             features, buffer_size, libc>>

\* if (!features || !buffer || buffer_size == 0) return -1;  int written = 0;
CallDescribe ==
    /\ pc = "idle"
    /\ fn' = "strider_describe_cpu_features"
    /\ IF buffer_size = 0
       THEN /\ pc' = "done"
            /\ ret' = 0 - 1
            /\ UNCHANGED <<written, piece>>
       ELSE /\ pc' = "describe"
            /\ ret' = ret
            /\ written' = 0
            /\ piece' = 1
    /\ UNCHANGED <<descRest, buffer>>

\* written += snprintf(buffer + written, buffer_size - written, ...);
\* with written <= buffer_size.
DescribeSnprintf ==
    /\ pc = "describe"
    /\ piece <= Len(Lines(build, features))
    /\ written <= buffer_size
    /\ LET text == Lines(build, features)[piece]
       IN  /\ buffer' = Snprintf(buffer, written, buffer_size - written, text)
           /\ written' = written + SnprintfReturn(buffer_size - written, text)
    /\ piece' = piece + 1
    /\ UNCHANGED <<descRest, pc, fn, ret>>

\* The same statement with written > buffer_size.
DescribeSnprintfWrapped ==
    /\ pc = "describe"
    /\ piece <= Len(Lines(build, features))
    /\ written > buffer_size
    /\ LET text == Lines(build, features)[piece]
       IN  IF libc = "unbounded"
           THEN /\ buffer' = Snprintf(buffer, written, Len(text) + 1, text)
                /\ written' = written + Len(text)
           ELSE /\ buffer' = buffer
                /\ written' = written - 1
    /\ piece' = piece + 1
    /\ UNCHANGED <<descRest, pc, fn, ret>>

\* return written;
DescribeReturn ==
    /\ pc = "describe"
    /\ piece > Len(Lines(build, features))
    /\ pc' = "done"
    /\ ret' = written
    /\ UNCHANGED <<descRest, fn, buffer, written, piece>>

NextDescribe ==
    \/ CallDescribe
    \/ DescribeSnprintf
    \/ DescribeSnprintfWrapped
    \/ DescribeReturn

SpecDescribe == InitDescribe /\ [][NextDescribe]_vars

\* The characters the call stored in the caller's buffer, the NUL excluded.
CharsInBuffer ==
    Cardinality({i \in 0..(buffer_size - 1) : buffer[i] \notin {Indeterminate, NulChar}})

\* C20: for buffer_size > 0 the value strider_describe_cpu_features returns
\* is the number of characters written into buffer excluding the
\* terminating NUL, hence less than buffer_size.
C20_ReturnIsCharsWritten ==
    (Returned("strider_describe_cpu_features") /\ buffer_size > 0) =>
        /\ ret = CharsInBuffer
        /\ ret < buffer_size

\* C30: strider_describe_cpu_features writes only inside
\* buffer[0, buffer_size): across its snprintf calls written never exceeds
\* buffer_size, so buffer_size - written never wraps, and no cell after the
\* buffer is written; with buffer_size 0 it returns -1 and writes nothing.
C30_DescribeWritesInsideBuffer ==
    fn = "strider_describe_cpu_features" =>
        /\ written <= buffer_size
        /\ \A i \in DOMAIN buffer : i >= buffer_size => buffer[i] = Indeterminate
        /\ buffer_size = 0 =>
               /\ ret = 0 - 1
               /\ \A i \in DOMAIN buffer : buffer[i] = Indeterminate

====
